---- MODULE Spec2Model ----
(***************************************************************************)
(* Visual Product Matcher: the URL normalizer (lib/normalizeImageUrl), the  *)
(* image proxy route handler (app/api/image-proxy/route.ts), the ranker    *)
(* (lib/imageMatching) and the Home component that loads the catalog and   *)
(* the query image and calls the ranker.                                   *)
(*                                                                         *)
(* Strings that may be URLs are records.  A record of kind "text" is a     *)
(* string that the WHATWG URL parser rejects; a record of kind "url" is a  *)
(* string that parses, described by the components the parser extracts and *)
(* by how it was spelled: canon says whether scheme, host and path were    *)
(* written exactly as the serializer writes them, and every query          *)
(* parameter carries the spelling of its text ("form": exactly what        *)
(* URLSearchParams.toString() writes for that name and value; "pct": some  *)
(* other spelling that decodes to the same name and value).                *)
(***************************************************************************)
EXTENDS Integers, Sequences, FiniteSets, TLC

VARIABLES
  \* a call of normalizeImageUrl
  rawUrl,            \* the argument of the outermost call
  callStack,         \* the arguments of the invocations that are active
  normalized,        \* the completion of the outermost call
  npc,               \* "idle", "call" or "returned"
  \* a request to the image proxy
  request,           \* the url query parameter of the request
  pc,                \* "idle", "received", "awaitFetch", "responded", "unhandled"
  parsedUrl,         \* the URL object of GET
  fetchLog,          \* the outbound fetch calls made so far
  fetchState,        \* "none", "inflight", "resolved", "failed", "aborted"
  upstreamResponse,  \* what the outbound fetch resolved with
  response,          \* the response of the handler
  callerGone,        \* the caller has disconnected
  \* a call of findSimilarProducts
  sourceImage,       \* the image argument
  catalogEmbeddings, \* the array passed as the catalog argument
  topK,              \* the topK argument
  ranked,            \* the array the call resolved with
  rpc,               \* "idle", "call" or "returned"
  \* the Home component
  mounted,           \* the component is mounted
  catalogFetch,      \* loadProducts: "idle", "pending", "loaded", "failed", "aborted"
  products,          \* state products
  productEmbeddings, \* state productEmbeddings
  uploadedImage,     \* state uploadedImage, the source of the preview
  imageElement,      \* state imageElement, by the source of the image
  similarProducts,   \* state similarProducts
  error,             \* state error
  filterThreshold,   \* state filterThreshold
  remoteObjectUrlRef,\* remoteObjectUrlRef.current
  objectUrls,        \* the object URLs created and the ones revoked
  pendingFetches,    \* calls of handleUrlInput that await the proxy
  pendingReads,      \* FileReaders that are reading
  pendingImages,     \* Image objects that are loading
  submissions,       \* files and URLs submitted so far
  loads,             \* per submission, the load attempts and their outcomes
  lastSearch         \* what the last completed handleSearch ranked

nvars == <<rawUrl, callStack, normalized, npc>>
pvars == <<request, pc, parsedUrl, fetchLog, fetchState, upstreamResponse,
           response, callerGone>>
rvars == <<sourceImage, catalogEmbeddings, topK, ranked, rpc>>
hvars == <<mounted, catalogFetch, products, productEmbeddings, uploadedImage,
           imageElement, similarProducts, error, filterThreshold,
           remoteObjectUrlRef, objectUrls, pendingFetches, pendingReads,
           pendingImages, submissions, loads, lastSearch>>
vars == <<rawUrl, callStack, normalized, npc, request, pc, parsedUrl, fetchLog,
          fetchState, upstreamResponse, response, callerGone,
          sourceImage, catalogEmbeddings, topK, ranked, rpc,
          mounted, catalogFetch, products, productEmbeddings, uploadedImage,
          imageElement, similarProducts, error, filterThreshold,
          remoteObjectUrlRef, objectUrls, pendingFetches, pendingReads,
          pendingImages, submissions, loads, lastSearch>>

----------------------------------------------------------------------------
(* Bounds of the input space *)

\* longest query (number of parameters) of a URL without a nested URL
MaxParams == 2
\* deepest nesting of a URL inside the imgurl parameter of another URL
MaxNest == 2
\* longest query of a URL handed to the proxy
MaxProxyParams == 1

\* entries of a catalog, and the largest topK
MaxCatalog == 3
MaxK == 3

\* files and URLs that the user submits to the page
MaxSubmissions == 2

----------------------------------------------------------------------------
(* Strings *)

Text(s) ==
  [kind |-> "text", s |-> s, canon |-> TRUE, protocol |-> "", hostname |-> "",
   pathname |-> "", query |-> <<>>]

UrlString(canon, protocol, hostname, pathname, query) ==
  [kind |-> "url", s |-> "", canon |-> canon, protocol |-> protocol,
   hostname |-> hostname, pathname |-> pathname, query |-> query]

EmptyString == Text("")

\* one "name=value" piece of a query string, with the spelling of its text
QueryPiece(name, value, spelling) ==
  [name |-> name, value |-> value, spelling |-> spelling]

\* String.prototype.includes for the needles the program uses
Includes(haystack, needle) ==
  CASE needle = "google." ->
         haystack \in {"www.google.com", "images.unsplash.com.google.com"}
    [] needle = "images.unsplash.com" ->
         haystack \in {"images.unsplash.com", "images.unsplash.com.google.com"}
    [] needle = "/imgres" -> haystack \in {"/imgres"}
    [] OTHER -> FALSE

----------------------------------------------------------------------------
(* The URL and URLSearchParams classes of the runtime *)

\* new URL(raw): a completion that either throws or yields the URL object.
\* The parser lower-cases scheme and host and fills in the path, so the
\* object does not remember the spelling of those parts (canon).
NewURL(raw) ==
  IF raw.kind = "url"
  THEN [threw |-> FALSE, protocol |-> raw.protocol, hostname |-> raw.hostname,
        pathname |-> raw.pathname, search |-> raw.query]
  ELSE [threw |-> TRUE, protocol |-> "", hostname |-> "", pathname |-> "",
        search |-> <<>>]

\* URL.prototype.toString(): the serialization, always in canonical form;
\* the query text is kept as it was written unless search was assigned.
URLToString(url) ==
  UrlString(TRUE, url.protocol, url.hostname, url.pathname, url.search)

\* url.searchParams: the decoded list of name/value pairs
SearchParams(url) ==
  [i \in 1..Len(url.search) |->
     [name |-> url.search[i].name, value |-> url.search[i].value]]

ParamsHas(params, name) == \E i \in 1..Len(params) : params[i].name = name

\* URLSearchParams.get: the value of the FIRST pair with that name
\* (callers test ParamsHas first; get returns null when there is none)
ParamsGet(params, name) ==
  LET first == CHOOSE i \in 1..Len(params) :
                 /\ params[i].name = name
                 /\ \A j \in 1..(i-1) : params[j].name # name
  IN params[first].value

\* URLSearchParams.set: replace the first pair of that name and drop the
\* others, or append when there is none
ParamsSet(params, name, value) ==
  IF ParamsHas(params, name)
  THEN LET first == CHOOSE i \in 1..Len(params) :
                      /\ params[i].name = name
                      /\ \A j \in 1..(i-1) : params[j].name # name
           RECURSIVE build(_)
           build(i) ==
             IF i > Len(params) THEN <<>>
             ELSE IF i = first
                  THEN <<[name |-> name, value |-> value]>> \o build(i+1)
                  ELSE IF params[i].name # name
                       THEN <<params[i]>> \o build(i+1)
                       ELSE build(i+1)
       IN build(1)
  ELSE Append(params, [name |-> name, value |-> value])

\* URLSearchParams.toString(): application/x-www-form-urlencoded text
ParamsToString(params) ==
  [i \in 1..Len(params) |->
     QueryPiece(params[i].name, params[i].value, "form")]

----------------------------------------------------------------------------
(* lib/normalizeImageUrl *)

\* variant: the parameter is set without the has() test
SetIfMissing_Overwrite(params, name, value) == ParamsSet(params, name, value)

\* if (!params.has(name)) params.set(name, value)
SetIfMissing(params, name, value) ==
  IF ~ParamsHas(params, name) THEN ParamsSet(params, name, value) ELSE params

\* the hostname/pathname test of the Google Images "imgres" wrapper
IsImgresWrapper(parsed) ==
  Includes(parsed.hostname, "google.") /\ Includes(parsed.pathname, "/imgres")

\* actualImageUrl is truthy: the imgurl parameter exists and is not ''
HasActualImageUrl(parsed) ==
  /\ ParamsHas(SearchParams(parsed), "imgurl")
  /\ ParamsGet(SearchParams(parsed), "imgurl") # EmptyString

\* the Unsplash branch: add auto, fit, fm when missing, assign
\* parsed.search = params.toString() and serialize the URL
UnsplashUrl(parsed) ==
  LET p1 == SetIfMissing(SearchParams(parsed), "auto", Text("format"))
      p2 == SetIfMissing(p1, "fit", Text("crop"))
      p3 == SetIfMissing(p2, "fm", Text("jpg"))
  IN URLToString([parsed EXCEPT !.search = ParamsToString(p3)])

\* variant: the Unsplash rule is tried before the wrapper rule
NormalizeBody_CdnFirst(raw) ==
  LET parsed == NewURL(raw) IN
  IF parsed.threw THEN [kind |-> "return", value |-> raw]
  ELSE IF Includes(parsed.hostname, "images.unsplash.com")
       THEN [kind |-> "return", value |-> UnsplashUrl(parsed)]
       ELSE IF IsImgresWrapper(parsed) /\ HasActualImageUrl(parsed)
            THEN [kind |-> "recurse",
                  value |-> ParamsGet(SearchParams(parsed), "imgurl")]
            ELSE [kind |-> "return", value |-> raw]

\* variant: no try/catch around the body
NormalizeBody_NoCatch(raw) ==
  LET parsed == NewURL(raw) IN
  IF parsed.threw THEN [kind |-> "throw", value |-> raw]
  ELSE IF IsImgresWrapper(parsed) /\ HasActualImageUrl(parsed)
       THEN [kind |-> "recurse",
             value |-> ParamsGet(SearchParams(parsed), "imgurl")]
       ELSE IF Includes(parsed.hostname, "images.unsplash.com")
            THEN [kind |-> "return", value |-> UnsplashUrl(parsed)]
            ELSE [kind |-> "return", value |-> raw]

\* variant: the recursive call is handed the wrapper URL again, not the
\* value of its imgurl parameter
NormalizeBody_RecurseOnWrapper(raw) ==
  LET parsed == NewURL(raw) IN
  IF parsed.threw THEN [kind |-> "return", value |-> raw]
  ELSE IF IsImgresWrapper(parsed) /\ HasActualImageUrl(parsed)
       THEN [kind |-> "recurse", value |-> raw]
       ELSE IF Includes(parsed.hostname, "images.unsplash.com")
            THEN [kind |-> "return", value |-> UnsplashUrl(parsed)]
            ELSE [kind |-> "return", value |-> raw]

\* One invocation of normalizeImageUrl up to its return or its recursive
\* call.  kind is "return" (value is the returned string), "recurse" (value
\* is the argument of the nested call, whose result is returned) or "throw".
\* The try block covers the whole body, so a throw of new URL lands in the
\* catch, which warns and falls through to "return rawUrl".
NormalizeBody(raw) ==
  LET parsed == NewURL(raw) IN
  IF parsed.threw THEN [kind |-> "return", value |-> raw]
  ELSE IF IsImgresWrapper(parsed) /\ HasActualImageUrl(parsed)
       THEN [kind |-> "recurse",
             value |-> ParamsGet(SearchParams(parsed), "imgurl")]
       ELSE IF Includes(parsed.hostname, "images.unsplash.com")
            THEN [kind |-> "return", value |-> UnsplashUrl(parsed)]
            ELSE [kind |-> "return", value |-> raw]

\* normalizeImageUrl as a completion: threw, or the returned string.  A throw
\* of the nested call would be caught by the caller's own try block.
RECURSIVE normalizeImageUrl(_)
normalizeImageUrl(raw) ==
  LET body == NormalizeBody(raw) IN
  CASE body.kind = "return" -> [threw |-> FALSE, value |-> body.value]
    [] body.kind = "throw" -> [threw |-> TRUE, value |-> raw]
    [] body.kind = "recurse" ->
         LET inner == normalizeImageUrl(body.value) IN
         IF inner.threw THEN [threw |-> FALSE, value |-> raw] ELSE inner

----------------------------------------------------------------------------
(* Inputs *)

Protocols == {"http:", "https:", "ftp:"}
Hostnames == {"example.com", "www.google.com", "images.unsplash.com",
              "images.unsplash.com.google.com"}
Pathnames == {"/imgres", "/photo"}

NotAUrl == Text("not a url")

SimplePieces ==
  { QueryPiece("auto", Text("webp"), "form"),
    QueryPiece("fit", Text("max"), "form"),
    QueryPiece("fm", Text("png"), "pct"),
    QueryPiece("q", Text("a b"), "pct"),
    QueryPiece("imgurl", EmptyString, "form") }

SeqsUpTo(S, n) == UNION {[1..k -> S] : k \in 0..n}

\* URLs whose parameters hold no URL
SimpleUrls(n) ==
  { UrlString(c, p, h, path, q) :
      c \in BOOLEAN, p \in Protocols, h \in Hostnames, path \in Pathnames,
      q \in SeqsUpTo(SimplePieces, n) }

\* the innermost values of an imgurl parameter
InnerValues ==
  {NotAUrl} \cup
  { UrlString(FALSE, p, h, "/photo", q) :
      p \in Protocols, h \in Hostnames,
      q \in {<<>>, <<QueryPiece("fit", Text("max"), "form")>>} }

\* URLs that carry one of the values S in an imgurl parameter
WrapUrls(S) ==
  { UrlString(TRUE, "https:", h, path, q) :
      h \in Hostnames, path \in Pathnames,
      q \in UNION { { <<QueryPiece("imgurl", v, "pct")>>,
                      <<QueryPiece("imgurl", v, "pct"),
                        QueryPiece("auto", Text("webp"), "form")>>,
                      <<QueryPiece("imgurl", EmptyString, "form"),
                        QueryPiece("imgurl", v, "pct")>> } : v \in S } }

\* a plain wrapper link around one of the values S
PlainWrap(S) ==
  { UrlString(TRUE, "https:", h, "/imgres", <<QueryPiece("imgurl", v, "pct")>>) :
      h \in Hostnames, v \in S }

\* the values of an imgurl parameter that hold URLs nested up to d deep
RECURSIVE EmbeddedValues(_)
EmbeddedValues(d) ==
  IF d = 0 THEN InnerValues
  ELSE InnerValues \cup PlainWrap(EmbeddedValues(d - 1))

\* URLs that carry URLs nested up to d deep, d >= 1
NestedUrls(d) == WrapUrls(EmbeddedValues(d - 1))

NormalizeInputs ==
  {EmptyString, NotAUrl} \cup SimpleUrls(MaxParams) \cup NestedUrls(MaxNest)

----------------------------------------------------------------------------
(* The Headers class, a set of name/value entries with unique names *)

HeadersHas(h, name) == \E e \in h : e.name = name
HeadersGet(h, name) == (CHOOSE e \in h : e.name = name).value
HeadersSet(h, name, value) ==
  {e \in h : e.name # name} \cup {[name |-> name, value |-> value]}

\* headers.get(name) is truthy: present and not ''
HeaderTruthy(h, name) == HeadersHas(h, name) /\ HeadersGet(h, name) # ""

----------------------------------------------------------------------------
(* app/api/image-proxy/route.ts *)

ALLOWED_PROTOCOLS == {"http:", "https:"}

NoUrl == NewURL(Text("<none>"))
NoUpstream == [status |-> 0, headers |-> {}, body |-> "null"]
NoResponse == [status |-> 0, error |-> "", headers |-> {}, body |-> "null"]

\* statuses for which the Response constructor refuses a body, and for which
\* fetch delivers a null body
NullBodyStatus == {101, 103, 204, 205, 304}

\* NextResponse.json({ error: message }, { status }) is Response.json: it throws a
\* RangeError for a status outside 200..599 and a TypeError for a null body
\* status, otherwise yields a JSON response
NextResponseJson(message, status) ==
  IF status < 200 \/ status > 599 \/ status \in NullBodyStatus
  THEN [threw |-> TRUE, response |-> NoResponse]
  ELSE [threw |-> FALSE,
        response |-> [status |-> status, error |-> message,
                      headers |-> {[name |-> "content-type",
                                    value |-> "application/json"]},
                      body |-> "json"]]

\* variant: the protocol of the supplied URL is tested, not the protocol of
\* the normalized URL that is fetched
GETValidate_CheckSupplied(req) ==
  LET target == req.url
      norm == normalizeImageUrl(target)
      parsed == NewURL(norm.value)
      supplied == NewURL(target)
  IN IF ~req.hasUrl \/ target = EmptyString
     THEN [ok |-> FALSE, parsedUrl |-> NoUrl,
           response |-> NextResponseJson("Missing url query parameter", 400).response]
     ELSE IF norm.threw \/ parsed.threw
          THEN [ok |-> FALSE, parsedUrl |-> NoUrl,
                response |-> NextResponseJson("Invalid URL supplied", 400).response]
          ELSE IF supplied.protocol \notin ALLOWED_PROTOCOLS
               THEN [ok |-> FALSE, parsedUrl |-> NoUrl,
                     response |-> NextResponseJson(
                        "Only http and https protocols are allowed", 400).response]
               ELSE [ok |-> TRUE, parsedUrl |-> parsed, response |-> NoResponse]

\* variant: only a null target counts as missing (target === null)
GETValidate_NullOnly(req) ==
  LET target == req.url
      norm == normalizeImageUrl(target)
      parsed == NewURL(norm.value)
  IN IF ~req.hasUrl
     THEN [ok |-> FALSE, parsedUrl |-> NoUrl,
           response |-> NextResponseJson("Missing url query parameter", 400).response]
     ELSE IF norm.threw \/ parsed.threw
          THEN [ok |-> FALSE, parsedUrl |-> NoUrl,
                response |-> NextResponseJson("Invalid URL supplied", 400).response]
          ELSE IF parsed.protocol \notin ALLOWED_PROTOCOLS
               THEN [ok |-> FALSE, parsedUrl |-> NoUrl,
                     response |-> NextResponseJson(
                        "Only http and https protocols are allowed", 400).response]
               ELSE [ok |-> TRUE, parsedUrl |-> parsed, response |-> NoResponse]

\* GET up to the end of the validations: the 400 response, or the URL object
GETValidate(req) ==
  LET target == req.url
      norm == normalizeImageUrl(target)
      parsed == NewURL(norm.value)
  IN IF ~req.hasUrl \/ target = EmptyString
     THEN [ok |-> FALSE, parsedUrl |-> NoUrl,
           response |-> NextResponseJson("Missing url query parameter", 400).response]
     ELSE IF norm.threw \/ parsed.threw
          THEN [ok |-> FALSE, parsedUrl |-> NoUrl,
                response |-> NextResponseJson("Invalid URL supplied", 400).response]
          ELSE IF parsed.protocol \notin ALLOWED_PROTOCOLS
               THEN [ok |-> FALSE, parsedUrl |-> NoUrl,
                     response |-> NextResponseJson(
                        "Only http and https protocols are allowed", 400).response]
               ELSE [ok |-> TRUE, parsedUrl |-> parsed, response |-> NoResponse]

\* attemptFetch: the call of fetch; the options carry no signal
attemptFetch(url, headers) ==
  [url |-> URLToString(url), redirect |-> "follow", headers |-> headers,
   cache |-> "no-store", signal |-> FALSE]

upstreamHeaders == {"User-Agent", "Accept", "Accept-Language"}

\* the ways a fetch call can reject: a transport failure, or an abort when the
\* call was given the signal of a caller that has gone
FetchRejections(call, gone) ==
  {"failed"} \cup (IF call.signal /\ gone THEN {"aborted"} ELSE {})

\* variant: every upstream header is forwarded
SuccessHeaders_ForwardAll(upstream) ==
  HeadersSet(HeadersSet(upstream.headers, "cache-control", "public, max-age=60"),
             "access-control-allow-origin", "*")

\* the response headers of the success branch
SuccessHeaders(upstream) ==
  LET h0 == {}
      h1 == IF HeaderTruthy(upstream.headers, "content-type")
            THEN HeadersSet(h0, "content-type",
                            HeadersGet(upstream.headers, "content-type"))
            ELSE h0
      h2 == IF HeaderTruthy(upstream.headers, "content-length")
            THEN HeadersSet(h1, "content-length",
                            HeadersGet(upstream.headers, "content-length"))
            ELSE h1
      h3 == HeadersSet(h2, "cache-control", "public, max-age=60")
  IN HeadersSet(h3, "access-control-allow-origin", "*")

\* the catch clause of GET
ProxyFailure ==
  NextResponseJson("Unexpected proxy failure", 502)

\* variant: the failure response always carries 502
GETRespond_Always502(settled, upstream) ==
  LET ok == upstream.status >= 200 /\ upstream.status <= 299
  IN IF settled # "resolved" THEN ProxyFailure
     ELSE IF ~ok \/ upstream.body = "null"
          THEN NextResponseJson("Failed to fetch remote image", 502)
          ELSE [threw |-> FALSE,
                response |-> [status |-> 200, error |-> "",
                              headers |-> SuccessHeaders(upstream),
                              body |-> upstream.body]]

\* variant: no catch clause around the fetch and the response
GETRespond_NoCatch(settled, upstream) ==
  LET ok == upstream.status >= 200 /\ upstream.status <= 299
  IN IF settled # "resolved" THEN [threw |-> TRUE, response |-> NoResponse]
     ELSE IF ~ok \/ upstream.body = "null"
          THEN NextResponseJson("Failed to fetch remote image",
                  IF upstream.status # 0 THEN upstream.status ELSE 502)
          ELSE [threw |-> FALSE,
                response |-> [status |-> 200, error |-> "",
                              headers |-> SuccessHeaders(upstream),
                              body |-> upstream.body]]

\* variant: only the status of the upstream reply is tested, not its body
GETRespond_NoBodyTest(settled, upstream) ==
  LET ok == upstream.status >= 200 /\ upstream.status <= 299
      failed == NextResponseJson("Failed to fetch remote image",
                   IF upstream.status # 0 THEN upstream.status ELSE 502)
  IN IF settled # "resolved" THEN ProxyFailure
     ELSE IF ~ok
          THEN (IF failed.threw THEN ProxyFailure ELSE failed)
          ELSE [threw |-> FALSE,
                response |-> [status |-> 200, error |-> "",
                              headers |-> SuccessHeaders(upstream),
                              body |-> upstream.body]]

\* GET after the await of attemptFetch: settled is the state of the fetch
GETRespond(settled, upstream) ==
  LET ok == upstream.status >= 200 /\ upstream.status <= 299
      failed == NextResponseJson("Failed to fetch remote image",
                   IF upstream.status # 0 THEN upstream.status ELSE 502)
  IN IF settled # "resolved" THEN ProxyFailure
     ELSE IF ~ok \/ upstream.body = "null"
          THEN (IF failed.threw THEN ProxyFailure ELSE failed)
          ELSE [threw |-> FALSE,
                response |-> [status |-> 200, error |-> "",
                              headers |-> SuccessHeaders(upstream),
                              body |-> upstream.body]]

----------------------------------------------------------------------------
(* The upstream server *)

UpstreamHeaderSets ==
  { ct \cup cl \cup other :
      ct \in {{}, {[name |-> "content-type", value |-> ""]},
              {[name |-> "content-type", value |-> "image/png"]}},
      cl \in {{}, {[name |-> "content-length", value |-> ""]},
              {[name |-> "content-length", value |-> "1024"]}},
      other \in {{}, {[name |-> "set-cookie", value |-> "sid=1"]}} }

\* what fetch can resolve with: the body is null exactly for a null body
\* status; redirects are followed, 1xx replies are never final
UpstreamReplies ==
  { [status |-> 200, headers |-> h, body |-> b] :
      h \in UpstreamHeaderSets, b \in {"bytes-A", "bytes-B"} }
  \cup
  { [status |-> st, headers |-> h,
     body |-> IF st \in NullBodyStatus THEN "null" ELSE "bytes-A"] :
      st \in {204, 206, 300, 304, 404, 500, 600},
      h \in {{}, {[name |-> "content-type", value |-> "text/html"],
                  [name |-> "set-cookie", value |-> "sid=1"]}} }

ProxyTargets ==
  {EmptyString, NotAUrl} \cup SimpleUrls(MaxProxyParams) \cup NestedUrls(1)

ProxyRequests ==
  {[hasUrl |-> FALSE, url |-> EmptyString]} \cup
  {[hasUrl |-> TRUE, url |-> t] : t \in ProxyTargets}

----------------------------------------------------------------------------
(* lib/imageMatching.  Numbers are reals: a normalized vector is kept as   *)
(* the vector vec and the square norm2 of the magnitude every component is *)
(* divided by, and a similarity as a pair [num, den] that stands for       *)
(* num / sqrt(den), so that no square root is ever rounded.  Infinity      *)
(* stands for a component that is not a finite number.                     *)

DIMENSIONS == 6

Infinity == 1000000

IsFinite(vector) == \A i \in 1..Len(vector) : vector[i] # Infinity

Min(a, b) == IF a <= b THEN a ELSE b

\* sum of a[i] * b[i] over the first length components
RECURSIVE DotProduct(_, _, _)
DotProduct(a, b, length) ==
  IF length = 0 THEN 0
  ELSE DotProduct(a, b, length - 1) + a[length] * b[length]

Zeros(vector) == [i \in 1..Len(vector) |-> 0]

normalizeVector(vector) ==
  LET magnitude2 == DotProduct(vector, vector, Len(vector)) IN
    IF ~IsFinite(vector) \/ magnitude2 = 0
    THEN [vec |-> Zeros(vector), norm2 |-> 1]
    ELSE [vec |-> vector, norm2 |-> magnitude2]

\* the six statistics of lines 65..99 are the field stats of an image
getImageEmbedding(image) == normalizeVector(image.stats)

\* dot, magA and magB of the code are the sums below divided by
\* sqrt(a.norm2 * b.norm2), a.norm2 and b.norm2, which cancel in the quotient
cosineSimilarity(a, b) ==
  LET length == Min(Len(a.vec), Len(b.vec))
      dot == DotProduct(a.vec, b.vec, length)
      magA == DotProduct(a.vec, a.vec, length)
      magB == DotProduct(b.vec, b.vec, length)
  IN IF magA = 0 \/ magB = 0 THEN [num |-> 0, den |-> 1]
     ELSE [num |-> dot, den |-> magA * magB]

Zero == [num |-> 0, den |-> 1]

SignedSquare(n) == IF n < 0 THEN 0 - n * n ELSE n * n

\* x < y for similarities x and y
Less(x, y) == SignedSquare(x.num) * y.den < SignedSquare(y.num) * x.den

\* Math.max(0, x)
MathMax0(x) == IF Less(x, Zero) THEN Zero ELSE x

\* x * 100 >= threshold, for an integer threshold
AtLeast(x, threshold) ==
  SignedSquare(100 * x.num) >= SignedSquare(threshold) * x.den

\* Math.round(x * 100) for a similarity x in [0, 1]
MathRound(x) ==
  CHOOSE r \in 0..100 :
    /\ r > 0 => SignedSquare(200 * x.num) >= SignedSquare(2 * r - 1) * x.den
    /\ r < 100 => SignedSquare(200 * x.num) < SignedSquare(2 * r + 1) * x.den

\* Array.prototype.sort with (a, b) => b.similarity - a.similarity: stable,
\* an item goes before the first one whose similarity is smaller
RECURSIVE InsertDescending(_, _)
InsertDescending(sorted, item) ==
  IF sorted = <<>> THEN <<item>>
  ELSE IF Less(Head(sorted).similarity, item.similarity)
       THEN <<item>> \o sorted
       ELSE <<Head(sorted)>> \o InsertDescending(Tail(sorted), item)

RECURSIVE SortDescending(_)
SortDescending(list) ==
  IF list = <<>> THEN <<>>
  ELSE InsertDescending(SortDescending(SubSeq(list, 1, Len(list) - 1)),
                        list[Len(list)])

\* Array.prototype.slice(0, end) for end >= 0
Slice(list, end) == SubSeq(list, 1, Min(end, Len(list)))

ScoreEntry(imageEmbedding, entry) ==
  [id |-> entry.id,
   similarity |->
     MathMax0(cosineSimilarity(imageEmbedding, normalizeVector(entry.embedding)))]

\* variant: the sorted list is returned whole
findSimilarProducts_NoSlice(image, catalog, k) ==
  LET imageEmbedding == getImageEmbedding(image)
      scored == [i \in 1..Len(catalog) |-> ScoreEntry(imageEmbedding, catalog[i])]
  IN [result |-> SortDescending(scored), catalog |-> catalog]

\* variant: the catalog array itself is sorted by score before it is mapped
findSimilarProducts_SortInPlace(image, catalog, k) ==
  LET imageEmbedding == getImageEmbedding(image)
      scored == [i \in 1..Len(catalog) |-> ScoreEntry(imageEmbedding, catalog[i])]
      sorted == SortDescending(scored)
  IN [result |-> Slice(sorted, k),
      catalog |-> [i \in 1..Len(catalog) |->
                     catalog[CHOOSE j \in 1..Len(catalog) :
                               catalog[j].id = sorted[i].id]]]

\* variant: the score is not clamped at 0
findSimilarProducts_NoMax(image, catalog, k) ==
  LET imageEmbedding == getImageEmbedding(image)
      scored ==
        [i \in 1..Len(catalog) |->
           [id |-> catalog[i].id,
            similarity |-> cosineSimilarity(imageEmbedding,
                             normalizeVector(catalog[i].embedding))]]
  IN [result |-> Slice(SortDescending(scored), k), catalog |-> catalog]

\* the array the call resolves with, and the catalog array after the call:
\* map builds a new array, which sort orders in place and slice copies
findSimilarProducts(image, catalog, k) ==
  LET imageEmbedding == getImageEmbedding(image)
      scored == [i \in 1..Len(catalog) |-> ScoreEntry(imageEmbedding, catalog[i])]
  IN [result |-> Slice(SortDescending(scored), k), catalog |-> catalog]

----------------------------------------------------------------------------
(* Images and catalogs *)

Image(stats) == [stats |-> stats]

\* the statistics are means of channel values, of brightness, a deviation
\* and a mean saturation, none of them negative
QueryImages ==
  { Image(<<0, 0, 0, 0, 0, 0>>), Image(<<2, 0, 0, 1, 0, 2>>),
    Image(<<1, 1, 1, 1, 0, 0>>), Image(<<0, 1, 2, 1, 1, 1>>) }

Embeddings ==
  { <<2, 0, 0, 1, 0, 2>>, <<1, 1, 1, 1, 0, 0>>, <<0, 2, 1, 1, 1, 0>>,
    <<0, 0, 0, 0, 0, 0>>, <<0 - 2, 0, 0, 0 - 1, 0, 0>>,
    <<Infinity, 0, 0, 1, 0, 0>>, <<0, 1>>, <<1, 0, 0, 1, 0, 0, 3>> }

CatalogEmbedding(id, embedding) == [id |-> id, embedding |-> embedding]

\* catalogs of n entries with the identifiers 1..n, ascending or descending
CatalogsOf(n) ==
  { [i \in 1..n |-> CatalogEmbedding(ids[i], embeddings[i])] :
      ids \in { [i \in 1..n |-> i], [i \in 1..n |-> n + 1 - i] },
      embeddings \in [1..n -> Embeddings] }

Catalogs == UNION { CatalogsOf(n) : n \in 0..MaxCatalog }

RankIdle ==
  /\ sourceImage = Image(<<0, 0, 0, 0, 0, 0>>)
  /\ catalogEmbeddings = <<>>
  /\ topK = 0
  /\ ranked = <<>>
  /\ rpc = "idle"

----------------------------------------------------------------------------
(* The Home component: its state and what its handlers work on.  A source  *)
(* is the string an image is loaded from: the object URL of a proxied      *)
(* blob, the normalized URL itself, or the data URL of a file; sub is the  *)
(* submission it came from.  An Image object is identified by its source.  *)

TOP_K == 10

DEFAULT_THRESHOLD == 30

NoSource == [kind |-> "none", sub |-> 0, url |-> EmptyString]

ObjectUrl(sub) == [kind |-> "object", sub |-> sub, url |-> EmptyString]

RemoteUrl(sub, url) == [kind |-> "remote", sub |-> sub, url |-> url]

DataUrl(sub) == [kind |-> "data", sub |-> sub, url |-> EmptyString]

NoError == "null"

\* what the user types into the URL field: nothing, or a wrapper URL
UserUrls ==
  { EmptyString,
    UrlString(TRUE, "https:", "www.google.com", "/imgres",
      << QueryPiece("imgurl",
           UrlString(TRUE, "https:", "example.com", "/photo", <<>>), "pct") >>) }

\* the picture behind the source of a submission
PictureOf(sub) ==
  IF sub = 1 THEN Image(<<2, 0, 0, 1, 0, 2>>) ELSE Image(<<1, 1, 1, 1, 0, 0>>)

Product(id, embedding) == [id |-> id, embedding |-> embedding]

\* contents of /products.json: a catalog that follows the schema, one with
\* an embedding of two elements and one with an element that is no number
ProductFiles ==
  { << Product(1, <<2, 0, 0, 1, 0, 2>>), Product(2, <<1, 1, 1, 1, 0, 0>>),
       Product(3, <<0, 2, 1, 1, 1, 0>>) >>,
    << Product(1, <<2, 0, 0, 1, 0, 2>>), Product(2, <<0, 1>>) >>,
    << Product(1, <<Infinity, 0, 0, 1, 0, 0>>), Product(2, <<1, 1, 1, 1, 0, 0>>) >> }

\* the replies to fetch('/products.json'): one that is not ok, and the ok
\* ones with a JSON body
ProductReplies ==
  { [ok |-> FALSE, json |-> FALSE, data |-> <<>>] }
  \cup { [ok |-> TRUE, json |-> TRUE, data |-> file] : file \in ProductFiles }

\* the positions of the slider that the user moves it to
Thresholds == {DEFAULT_THRESHOLD, 90}

NoLoad ==
  [proxies |-> 0, directs |-> 0, errors |-> 0, proxy |-> "none", direct |-> "none"]

NoSearch == [done |-> FALSE, image |-> NoSource, preview |-> NoSource]

HomeIdle ==
  /\ mounted = FALSE
  /\ catalogFetch = "idle"
  /\ products = <<>>
  /\ productEmbeddings = <<>>
  /\ uploadedImage = NoSource
  /\ imageElement = NoSource
  /\ similarProducts = <<>>
  /\ error = NoError
  /\ filterThreshold = DEFAULT_THRESHOLD
  /\ remoteObjectUrlRef = NoSource
  /\ objectUrls = [created |-> {}, revoked |-> {}]
  /\ pendingFetches = {}
  /\ pendingReads = {}
  /\ pendingImages = {}
  /\ submissions = 0
  /\ loads = [sub \in 1..MaxSubmissions |-> NoLoad]
  /\ lastSearch = NoSearch

----------------------------------------------------------------------------
(* Specification of one request to the proxy *)

NormalizeIdle ==
  /\ rawUrl = EmptyString
  /\ callStack = <<>>
  /\ normalized = [threw |-> FALSE, value |-> EmptyString]
  /\ npc = "idle"

ProxyIdle ==
  /\ request = [hasUrl |-> FALSE, url |-> EmptyString]
  /\ pc = "idle"
  /\ parsedUrl = NoUrl
  /\ fetchLog = <<>>
  /\ fetchState = "none"
  /\ upstreamResponse = NoUpstream
  /\ response = NoResponse
  /\ callerGone = FALSE

Init ==
  /\ NormalizeIdle
  /\ RankIdle
  /\ HomeIdle
  /\ request \in ProxyRequests
  /\ pc = "received"
  /\ parsedUrl = NoUrl
  /\ fetchLog = <<>>
  /\ fetchState = "none"
  /\ upstreamResponse = NoUpstream
  /\ response = NoResponse
  /\ callerGone = FALSE

\* GET from its entry to its first 400 response or to the await of the fetch
GETStart ==
  /\ pc = "received"
  /\ LET v == GETValidate(request) IN
       IF v.ok
       THEN /\ parsedUrl' = v.parsedUrl
            /\ fetchLog' = Append(fetchLog, attemptFetch(v.parsedUrl, upstreamHeaders))
            /\ fetchState' = "inflight"
            /\ pc' = "awaitFetch"
            /\ UNCHANGED response
       ELSE /\ response' = v.response
            /\ pc' = "responded"
            /\ UNCHANGED <<parsedUrl, fetchLog, fetchState>>
  /\ UNCHANGED <<request, upstreamResponse, callerGone>>
  /\ UNCHANGED nvars
  /\ UNCHANGED rvars
  /\ UNCHANGED hvars

\* the outbound fetch resolves with the reply of the upstream server
FetchResolve ==
  /\ fetchState = "inflight"
  /\ \E reply \in UpstreamReplies : upstreamResponse' = reply
  /\ fetchState' = "resolved"
  /\ UNCHANGED <<request, pc, parsedUrl, fetchLog, response, callerGone>>
  /\ UNCHANGED nvars
  /\ UNCHANGED rvars
  /\ UNCHANGED hvars

\* the outbound fetch rejects
FetchReject ==
  /\ fetchState = "inflight"
  /\ fetchState' \in FetchRejections(fetchLog[Len(fetchLog)], callerGone)
  /\ UNCHANGED <<request, pc, parsedUrl, fetchLog, upstreamResponse, response,
                 callerGone>>
  /\ UNCHANGED nvars
  /\ UNCHANGED rvars
  /\ UNCHANGED hvars

\* variant: a failed attempt is retried with another fetch
GETResume_Retry ==
  /\ pc = "awaitFetch"
  /\ fetchState \in {"resolved", "failed", "aborted"}
  /\ LET r == GETRespond(fetchState, upstreamResponse) IN
       IF fetchState # "resolved" /\ Len(fetchLog) < 2
       THEN /\ fetchLog' = Append(fetchLog, attemptFetch(parsedUrl, upstreamHeaders))
            /\ fetchState' = "inflight"
            /\ UNCHANGED <<pc, response>>
       ELSE /\ pc' = (IF r.threw THEN "unhandled" ELSE "responded")
            /\ response' = (IF r.threw THEN response ELSE r.response)
            /\ UNCHANGED <<fetchLog, fetchState>>
  /\ UNCHANGED <<request, parsedUrl, upstreamResponse, callerGone>>
  /\ UNCHANGED nvars
  /\ UNCHANGED rvars
  /\ UNCHANGED hvars

\* GET resumes after the await and runs to its return
GETResume ==
  /\ pc = "awaitFetch"
  /\ fetchState \in {"resolved", "failed", "aborted"}
  /\ LET r == GETRespond(fetchState, upstreamResponse) IN
       IF r.threw
       THEN pc' = "unhandled" /\ UNCHANGED response
       ELSE pc' = "responded" /\ response' = r.response
  /\ UNCHANGED <<request, parsedUrl, fetchLog, fetchState, upstreamResponse,
                 callerGone>>
  /\ UNCHANGED nvars
  /\ UNCHANGED rvars
  /\ UNCHANGED hvars

\* the caller closes the connection before the response
CallerDisconnect ==
  /\ pc \in {"received", "awaitFetch"}
  /\ ~callerGone
  /\ callerGone' = TRUE
  /\ UNCHANGED <<request, pc, parsedUrl, fetchLog, fetchState, upstreamResponse,
                 response>>
  /\ UNCHANGED nvars
  /\ UNCHANGED rvars
  /\ UNCHANGED hvars

Next ==
  \/ GETStart
  \/ FetchResolve
  \/ FetchReject
  \/ GETResume
  \/ CallerDisconnect

Spec == Init /\ [][Next]_vars

----------------------------------------------------------------------------
(* Specification of one call of normalizeImageUrl, an invocation per step *)

InitNormalize ==
  /\ rawUrl \in NormalizeInputs
  /\ callStack = <<rawUrl>>
  /\ normalized = [threw |-> FALSE, value |-> EmptyString]
  /\ npc = "call"
  /\ ProxyIdle
  /\ RankIdle
  /\ HomeIdle

\* the active invocation reaches "return normalizeImageUrl(actualImageUrl)"
NormalizeRecurse ==
  /\ npc = "call"
  /\ LET body == NormalizeBody(callStack[Len(callStack)]) IN
       /\ body.kind = "recurse"
       /\ callStack' = Append(callStack, body.value)
  /\ UNCHANGED <<rawUrl, normalized, npc>>
  /\ UNCHANGED pvars
  /\ UNCHANGED rvars
  /\ UNCHANGED hvars

\* the active invocation returns or throws; every caller on the stack hands
\* the value on, and the first caller catches a throw and returns its own
\* argument
NormalizeReturn ==
  /\ npc = "call"
  /\ LET body == NormalizeBody(callStack[Len(callStack)]) IN
       /\ body.kind # "recurse"
       /\ normalized' =
            IF body.kind = "return" THEN [threw |-> FALSE, value |-> body.value]
            ELSE IF Len(callStack) = 1
                 THEN [threw |-> TRUE, value |-> rawUrl]
                 ELSE [threw |-> FALSE, value |-> callStack[Len(callStack) - 1]]
  /\ callStack' = <<>>
  /\ npc' = "returned"
  /\ UNCHANGED rawUrl
  /\ UNCHANGED pvars
  /\ UNCHANGED rvars
  /\ UNCHANGED hvars

NextNormalize == NormalizeRecurse \/ NormalizeReturn

SpecNormalize == InitNormalize /\ [][NextNormalize]_vars

\* the call computes what the recursive definition computes
ReturnIsNormalize == npc = "returned" => normalized = normalizeImageUrl(rawUrl)

----------------------------------------------------------------------------
(* Specification of one call of findSimilarProducts *)

InitRank ==
  /\ NormalizeIdle
  /\ ProxyIdle
  /\ HomeIdle
  /\ sourceImage \in QueryImages
  /\ catalogEmbeddings \in Catalogs
  /\ topK \in 0..MaxK
  /\ ranked = <<>>
  /\ rpc = "call"

FindSimilarProducts ==
  /\ rpc = "call"
  /\ LET call == findSimilarProducts(sourceImage, catalogEmbeddings, topK) IN
       /\ ranked' = call.result
       /\ catalogEmbeddings' = call.catalog
  /\ rpc' = "returned"
  /\ UNCHANGED <<sourceImage, topK>>
  /\ UNCHANGED <<nvars, pvars>>
  /\ UNCHANGED hvars

NextRank == FindSimilarProducts

SpecRank == InitRank /\ [][NextRank]_vars

----------------------------------------------------------------------------
(* Specification of the Home component, a step per handler or callback.    *)
(* handleSearch is one step: nothing of findSimilarProducts waits for an   *)
(* event, so that its await resumes before any other handler runs, and the *)
(* loading flag it raises is lowered again in the same step.               *)

\* a state setter of useState; React drops updates of an unmounted component
SetState(current, value) == IF mounted THEN value ELSE current

\* URL.revokeObjectURL
RevokeObjectURL(urls, url) == [urls EXCEPT !.revoked = @ \cup {url}]

\* the object URLs after revokeRemoteObjectUrl, which also clears the ref
revokeRemoteObjectUrl(urls) ==
  IF remoteObjectUrlRef # NoSource
  THEN RevokeObjectURL(urls, remoteObjectUrlRef)
  ELSE urls

\* new Image() with its handlers installed and its src assigned
LoadingImage(source, isRemoteObjectUrl) ==
  [source |-> source, isRemoteObjectUrl |-> isRemoteObjectUrl]

InitHome ==
  /\ NormalizeIdle
  /\ ProxyIdle
  /\ RankIdle
  /\ mounted = TRUE
  /\ catalogFetch = "pending"
  /\ products = <<>>
  /\ productEmbeddings = <<>>
  /\ uploadedImage = NoSource
  /\ imageElement = NoSource
  /\ similarProducts = <<>>
  /\ error = NoError
  /\ filterThreshold = DEFAULT_THRESHOLD
  /\ remoteObjectUrlRef = NoSource
  /\ objectUrls = [created |-> {}, revoked |-> {}]
  /\ pendingFetches = {}
  /\ pendingReads = {}
  /\ pendingImages = {}
  /\ submissions = 0
  /\ loads = [sub \in 1..MaxSubmissions |-> NoLoad]
  /\ lastSearch = NoSearch

\* loadProducts from the reply to fetch('/products.json') to its end; the
\* cleanup of the effect aborts the fetch, so the fetch is pending only
\* while the component is mounted
LoadProducts ==
  /\ catalogFetch = "pending"
  /\ \E reply \in ProductReplies :
       IF reply.ok /\ reply.json
       THEN /\ products' = reply.data
            /\ productEmbeddings' =
                 [i \in 1..Len(reply.data) |->
                    CatalogEmbedding(reply.data[i].id, reply.data[i].embedding)]
            /\ catalogFetch' = "loaded"
            /\ UNCHANGED error
       ELSE /\ error' = "Failed to load products database"
            /\ catalogFetch' = "failed"
            /\ UNCHANGED <<products, productEmbeddings>>
  /\ UNCHANGED <<mounted, uploadedImage, imageElement, similarProducts,
                 filterThreshold, remoteObjectUrlRef, objectUrls,
                 pendingFetches, pendingReads, pendingImages, submissions,
                 loads, lastSearch>>
  /\ UNCHANGED <<nvars, pvars, rvars>>

\* handleFileUpload, with or without a file in the event
HandleFileUpload ==
  /\ mounted
  /\ error' = NoError
  /\ objectUrls' = revokeRemoteObjectUrl(objectUrls)
  /\ remoteObjectUrlRef' = NoSource
  /\ \E hasFile \in BOOLEAN :
       IF hasFile
       THEN /\ submissions < MaxSubmissions
            /\ submissions' = submissions + 1
            /\ pendingReads' = pendingReads \cup {submissions + 1}
       ELSE UNCHANGED <<submissions, pendingReads>>
  /\ UNCHANGED <<mounted, catalogFetch, products, productEmbeddings,
                 uploadedImage, imageElement, similarProducts,
                 filterThreshold, pendingFetches, pendingImages, loads,
                 lastSearch>>
  /\ UNCHANGED <<nvars, pvars, rvars>>

\* reader.onload; the result of readAsDataURL is a data URL, never empty
FileReaderOnLoad ==
  /\ \E sub \in pendingReads :
       /\ pendingReads' = pendingReads \ {sub}
       /\ uploadedImage' = SetState(uploadedImage, DataUrl(sub))
       /\ pendingImages' = pendingImages \cup {LoadingImage(DataUrl(sub), FALSE)}
  /\ UNCHANGED <<mounted, catalogFetch, products, productEmbeddings,
                 imageElement, similarProducts, error, filterThreshold,
                 remoteObjectUrlRef, objectUrls, pendingFetches, submissions,
                 loads, lastSearch>>
  /\ UNCHANGED <<nvars, pvars, rvars>>

\* reader.onerror
FileReaderOnError ==
  /\ \E sub \in pendingReads :
       /\ pendingReads' = pendingReads \ {sub}
       /\ error' = SetState(error, "Failed to read file")
       /\ loads' = [loads EXCEPT ![sub].errors = @ + 1]
  /\ UNCHANGED <<mounted, catalogFetch, products, productEmbeddings,
                 uploadedImage, imageElement, similarProducts,
                 filterThreshold, remoteObjectUrlRef, objectUrls,
                 pendingFetches, pendingImages, submissions, lastSearch>>
  /\ UNCHANGED <<nvars, pvars, rvars>>

\* handleUrlInput from its entry to its return or to the await of the fetch
HandleUrlInput ==
  /\ mounted
  /\ \E url \in UserUrls :
       IF url = EmptyString
       THEN /\ error' = "Please enter a valid image URL"
            /\ UNCHANGED <<submissions, pendingFetches, loads>>
       ELSE /\ submissions < MaxSubmissions
            /\ error' = NoError
            /\ submissions' = submissions + 1
            /\ pendingFetches' = pendingFetches \cup
                 {[sub |-> submissions + 1,
                   normalizedUrl |-> normalizeImageUrl(url).value]}
            /\ loads' = [loads EXCEPT ![submissions + 1].proxies = @ + 1,
                                      ![submissions + 1].proxy = "pending"]
  /\ UNCHANGED <<mounted, catalogFetch, products, productEmbeddings,
                 uploadedImage, imageElement, similarProducts,
                 filterThreshold, remoteObjectUrlRef, objectUrls,
                 pendingReads, pendingImages, lastSearch>>
  /\ UNCHANGED <<nvars, pvars, rvars>>

\* the fetch of the proxied URL settles: "ok" is a reply with a success
\* status, "status" a reply with another status, "network" a rejection of
\* fetch or of response.blob(); handleUrlInput runs to its end.  loadImage
\* does not throw, so the inner catch never runs.
HandleUrlInputResume ==
  /\ \E call \in pendingFetches, outcome \in {"ok", "status", "network"} :
       /\ pendingFetches' = pendingFetches \ {call}
       /\ IF outcome = "ok"
          THEN /\ objectUrls' =
                    [objectUrls EXCEPT !.created = @ \cup {ObjectUrl(call.sub)}]
               /\ uploadedImage' = SetState(uploadedImage, ObjectUrl(call.sub))
               /\ pendingImages' =
                    pendingImages \cup {LoadingImage(ObjectUrl(call.sub), TRUE)}
               /\ UNCHANGED loads
          ELSE /\ uploadedImage' =
                    SetState(uploadedImage, RemoteUrl(call.sub, call.normalizedUrl))
               /\ pendingImages' = pendingImages \cup
                    {LoadingImage(RemoteUrl(call.sub, call.normalizedUrl), FALSE)}
               /\ loads' = [loads EXCEPT ![call.sub].proxy = outcome,
                                         ![call.sub].directs = @ + 1,
                                         ![call.sub].direct = "pending"]
               /\ UNCHANGED objectUrls
  /\ UNCHANGED <<mounted, catalogFetch, products, productEmbeddings,
                 imageElement, similarProducts, error, filterThreshold,
                 remoteObjectUrlRef, pendingReads, submissions, lastSearch>>
  /\ UNCHANGED <<nvars, pvars, rvars>>

\* image.onload of loadImage
ImageOnLoad ==
  /\ \E image \in pendingImages :
       /\ pendingImages' = pendingImages \ {image}
       /\ IF image.isRemoteObjectUrl
          THEN /\ objectUrls' =
                    IF remoteObjectUrlRef # NoSource
                       /\ remoteObjectUrlRef # image.source
                    THEN RevokeObjectURL(objectUrls, remoteObjectUrlRef)
                    ELSE objectUrls
               /\ remoteObjectUrlRef' = image.source
          ELSE UNCHANGED <<objectUrls, remoteObjectUrlRef>>
       /\ imageElement' = SetState(imageElement, image.source)
       /\ loads' =
            IF image.source.kind = "object"
            THEN [loads EXCEPT ![image.source.sub].proxy = "loaded"]
            ELSE IF image.source.kind = "remote"
                 THEN [loads EXCEPT ![image.source.sub].direct = "loaded"]
                 ELSE loads
  /\ UNCHANGED <<mounted, catalogFetch, products, productEmbeddings,
                 uploadedImage, similarProducts, error, filterThreshold,
                 pendingFetches, pendingReads, submissions, lastSearch>>
  /\ UNCHANGED <<nvars, pvars, rvars>>

\* image.onerror of loadImage
ImageOnError ==
  /\ \E image \in pendingImages :
       /\ pendingImages' = pendingImages \ {image}
       /\ objectUrls' =
            IF image.isRemoteObjectUrl
            THEN RevokeObjectURL(objectUrls, image.source)
            ELSE objectUrls
       /\ error' = SetState(error, "Failed to load image")
       /\ loads' =
            IF image.source.kind = "object"
            THEN [loads EXCEPT ![image.source.sub].proxy = "undecodable",
                               ![image.source.sub].errors = @ + 1]
            ELSE IF image.source.kind = "remote"
                 THEN [loads EXCEPT ![image.source.sub].direct = "failed",
                                    ![image.source.sub].errors = @ + 1]
                 ELSE [loads EXCEPT ![image.source.sub].errors = @ + 1]
  /\ UNCHANGED <<mounted, catalogFetch, products, productEmbeddings,
                 uploadedImage, imageElement, similarProducts,
                 filterThreshold, remoteObjectUrlRef, pendingFetches,
                 pendingReads, submissions, lastSearch>>
  /\ UNCHANGED <<nvars, pvars, rvars>>

\* results.filter((item) => item.similarity >= filterThreshold)
FilterResults(results, threshold) ==
  LET Passes(item) == AtLeast(item.similarity, threshold)
  IN SelectSeq(results, Passes)

\* the loop over filteredResults: a match whose product is found is pushed
\* with its rounded similarity
Matches(filteredResults, productList) ==
  LET Found(match) ==
        \E i \in 1..Len(productList) : productList[i].id = match.id
      found == SelectSeq(filteredResults, Found)
  IN [i \in 1..Len(found) |->
        [id |-> found[i].id, similarity |-> MathRound(found[i].similarity)]]

\* handleSearch; canvasOk tells whether the browser hands out the 2d
\* context that getImageEmbedding draws on (createCanvas throws otherwise)
HandleSearch ==
  /\ mounted
  /\ \E canvasOk \in BOOLEAN :
       IF imageElement = NoSource
       THEN /\ error' = "Upload an image before searching"
            /\ UNCHANGED <<productEmbeddings, similarProducts, lastSearch>>
       ELSE IF productEmbeddings = <<>>
       THEN /\ error' = "Products are still loading. Please try again in a moment."
            /\ UNCHANGED <<productEmbeddings, similarProducts, lastSearch>>
       ELSE IF ~canvasOk
       THEN /\ error' = "Error while comparing products. Please try a different image."
            /\ UNCHANGED <<productEmbeddings, similarProducts, lastSearch>>
       ELSE LET call == findSimilarProducts(PictureOf(imageElement.sub),
                                            productEmbeddings, TOP_K)
                filteredResults == FilterResults(call.result, filterThreshold)
            IN /\ similarProducts' = Matches(filteredResults, products)
               /\ productEmbeddings' = call.catalog
               /\ error' = NoError
               /\ lastSearch' = [done |-> TRUE, image |-> imageElement,
                                 preview |-> uploadedImage]
  /\ UNCHANGED <<mounted, catalogFetch, products, uploadedImage, imageElement,
                 filterThreshold, remoteObjectUrlRef, objectUrls,
                 pendingFetches, pendingReads, pendingImages, submissions,
                 loads>>
  /\ UNCHANGED <<nvars, pvars, rvars>>

\* clearSearch
ClearSearch ==
  /\ mounted
  /\ uploadedImage' = NoSource
  /\ imageElement' = NoSource
  /\ similarProducts' = <<>>
  /\ error' = NoError
  /\ objectUrls' = revokeRemoteObjectUrl(objectUrls)
  /\ remoteObjectUrlRef' = NoSource
  /\ lastSearch' = NoSearch
  /\ UNCHANGED <<mounted, catalogFetch, products, productEmbeddings,
                 filterThreshold, pendingFetches, pendingReads, pendingImages,
                 submissions, loads>>
  /\ UNCHANGED <<nvars, pvars, rvars>>

\* onChange of the threshold slider
SetFilterThreshold ==
  /\ mounted
  /\ \E value \in Thresholds \ {filterThreshold} : filterThreshold' = value
  /\ UNCHANGED <<mounted, catalogFetch, products, productEmbeddings,
                 uploadedImage, imageElement, similarProducts, error,
                 remoteObjectUrlRef, objectUrls, pendingFetches, pendingReads,
                 pendingImages, submissions, loads, lastSearch>>
  /\ UNCHANGED <<nvars, pvars, rvars>>

\* the component unmounts: the cleanups of the two effects run
Unmount ==
  /\ mounted
  /\ mounted' = FALSE
  /\ objectUrls' = revokeRemoteObjectUrl(objectUrls)
  /\ remoteObjectUrlRef' = NoSource
  /\ catalogFetch' = IF catalogFetch = "pending" THEN "aborted" ELSE catalogFetch
  /\ UNCHANGED <<products, productEmbeddings, uploadedImage, imageElement,
                 similarProducts, error, filterThreshold, pendingFetches,
                 pendingReads, pendingImages, submissions, loads, lastSearch>>
  /\ UNCHANGED <<nvars, pvars, rvars>>

NextHome ==
  \/ LoadProducts
  \/ HandleFileUpload
  \/ FileReaderOnLoad
  \/ FileReaderOnError
  \/ HandleUrlInput
  \/ HandleUrlInputResume
  \/ ImageOnLoad
  \/ ImageOnError
  \/ HandleSearch
  \/ ClearSearch
  \/ SetFilterThreshold
  \/ Unmount

SpecHome == InitHome /\ [][NextHome]_vars

----------------------------------------------------------------------------
(* Properties of the image proxy (specification Spec) *)

Validated == GETValidate(request).ok
UpstreamOk == upstreamResponse.status >= 200 /\ upstreamResponse.status <= 299
SuppliedIsWrapper ==
  /\ request.hasUrl
  /\ request.url.kind = "url"
  /\ IsImgresWrapper(NewURL(request.url))
  /\ HasActualImageUrl(NewURL(request.url))

\* C1: an outbound fetch is issued only when the url parameter is present,
\* its normalized value parses and has scheme http or https; the fetch goes to
\* the serialization of that normalized URL, also for a wrapper URL; a request
\* answered with 400 has caused no fetch.
C1_FetchOnlyValidated ==
  /\ \A i \in 1..Len(fetchLog) :
       /\ request.hasUrl /\ request.url # EmptyString
       /\ normalizeImageUrl(request.url).value.kind = "url"
       /\ fetchLog[i].url.kind = "url"
       /\ fetchLog[i].url.protocol \in {"http:", "https:"}
       /\ fetchLog[i].url =
            URLToString(NewURL(normalizeImageUrl(request.url).value))
  /\ response.status = 400 => fetchLog = <<>>
  /\ fetchState # "none" => fetchLog # <<>>

\* the fetch of a wrapper URL goes to the embedded image URL
C1_Witness ==
  /\ SuppliedIsWrapper
  /\ Len(fetchLog) = 1
  /\ fetchLog[1].url.protocol = "http:"
  /\ fetchLog[1].url # URLToString(NewURL(request.url))

\* C2: once GET has passed its validations, a missing or empty url parameter
\* has been answered 400 'Missing url query parameter'; otherwise a normalized
\* value that does not parse 400 'Invalid URL supplied'; otherwise a scheme
\* other than http and https 400 'Only http and https protocols are allowed'.
C2_ValidationOrder ==
  pc # "received" =>
    LET norm == normalizeImageUrl(request.url).value IN
    IF ~request.hasUrl \/ request.url = EmptyString
    THEN /\ pc = "responded" /\ response.status = 400
         /\ response.error = "Missing url query parameter"
    ELSE IF norm.kind # "url"
         THEN /\ pc = "responded" /\ response.status = 400
              /\ response.error = "Invalid URL supplied"
         ELSE IF norm.protocol \notin {"http:", "https:"}
              THEN /\ pc = "responded" /\ response.status = 400
                   /\ response.error = "Only http and https protocols are allowed"
              ELSE response.status # 400

\* an empty url parameter is answered as missing
C2_Witness ==
  /\ pc = "responded"
  /\ request.hasUrl /\ request.url = EmptyString
  /\ response.error = "Missing url query parameter"

\* C3 as stated: every response has status 200, 400 or 502, and 'Failed to
\* fetch remote image' always comes with 502.
C3_StatusIs200_400_502 ==
  pc = "responded" =>
    /\ response.status \in {200, 400, 502}
    /\ response.error = "Failed to fetch remote image" => response.status = 502

\* C3 amended: every response has status 200, 400, 502 or the non-success
\* status (300..599) of the upstream reply, and 'Failed to fetch remote image'
\* always comes with the status of the upstream reply.
C3_StatusOrUpstream ==
  pc = "responded" =>
    /\ \/ response.status \in {200, 400, 502}
       \/ /\ response.status = upstreamResponse.status
          /\ response.status >= 300 /\ response.status <= 599
    /\ response.error = "Failed to fetch remote image" =>
         /\ fetchState = "resolved"
         /\ response.status = upstreamResponse.status

\* an upstream 404 is passed on with 'Failed to fetch remote image'
C3_Witness ==
  /\ pc = "responded"
  /\ upstreamResponse.status = 404
  /\ response.status = 404
  /\ response.error = "Failed to fetch remote image"

\* C4: a validated request causes exactly one outbound fetch, whatever the
\* outcome of the attempt; a request that is not validated causes none.
C4_OneFetch ==
  /\ Len(fetchLog) <= 1
  /\ (Validated /\ pc # "received") => Len(fetchLog) = 1
  /\ ~Validated => fetchLog = <<>>

\* the single attempt failed, the response is out, and one fetch was made
C4_Witness ==
  /\ pc = "responded"
  /\ fetchState = "failed"
  /\ Len(fetchLog) = 1

\* C5 as stated: once the caller has gone while the fetch is in flight, the
\* fetch is aborted: it never resolves with the reply of the upstream server.
C5_AbortOnDisconnect ==
  [][(callerGone /\ fetchState = "inflight") => fetchState' # "resolved"]_vars

\* C6: a success reply with a body is answered 200 with the upstream body and
\* with exactly Cache-Control, Access-Control-Allow-Origin and those of
\* Content-Type and Content-Length that upstream supplied (with a value that
\* is not empty), copied; no other upstream header.
C6_SuccessResponse ==
  (pc = "responded" /\ fetchState = "resolved" /\ UpstreamOk
     /\ upstreamResponse.body # "null") =>
    /\ response.status = 200
    /\ response.body = upstreamResponse.body
    /\ response.headers =
         {[name |-> "cache-control", value |-> "public, max-age=60"],
          [name |-> "access-control-allow-origin", value |-> "*"]}
         \cup {e \in upstreamResponse.headers :
                 e.name \in {"content-type", "content-length"} /\ e.value # ""}

\* upstream sent a cookie and a content type; only the content type is copied
C6_Witness ==
  /\ pc = "responded" /\ response.status = 200
  /\ [name |-> "set-cookie", value |-> "sid=1"] \in upstreamResponse.headers
  /\ [name |-> "content-type", value |-> "image/png"] \in response.headers
  /\ ~HeadersHas(upstreamResponse.headers, "content-length")
  /\ response.body = "bytes-B"

\* C7: when the fetch rejects, or building the failure response throws, the
\* handler answers 502 'Unexpected proxy failure'; no exception leaves GET.
C7_FailureIs502 ==
  /\ pc # "unhandled"
  /\ (pc = "responded" /\
        (\/ fetchState \in {"failed", "aborted"}
         \/ /\ fetchState = "resolved"
            /\ (~UpstreamOk \/ upstreamResponse.body = "null")
            /\ NextResponseJson("x", upstreamResponse.status).threw)) =>
       /\ response.status = 502
       /\ response.error = "Unexpected proxy failure"

\* the fetch rejected and the response is the generic 502
C7_Witness ==
  /\ pc = "responded"
  /\ fetchState = "failed"
  /\ response.status = 502
  /\ response.error = "Unexpected proxy failure"

----------------------------------------------------------------------------
(* Properties of normalizeImageUrl (specification SpecNormalize) *)

InputParsed == NewURL(rawUrl)
InputIsUrl == rawUrl.kind = "url"
InputIsCdn == InputIsUrl /\ Includes(InputParsed.hostname, "images.unsplash.com")
InputIsWrapper ==
  InputIsUrl /\ IsImgresWrapper(InputParsed) /\ HasActualImageUrl(InputParsed)

\* the parameters of a CDN URL after normalization: those present, in their
\* order, followed by those of auto, fit, fm that were missing
WithFormatParams(params) ==
  LET missing(e) == ~ParamsHas(params, e.name)
  IN params \o SelectSeq(<<[name |-> "auto", value |-> Text("format")],
                           [name |-> "fit", value |-> Text("crop")],
                           [name |-> "fm", value |-> Text("jpg")]>>, missing)

ResultHasFormatParams ==
  /\ ~normalized.threw
  /\ normalized.value.kind = "url"
  /\ NewURL(normalized.value).protocol = InputParsed.protocol
  /\ NewURL(normalized.value).hostname = InputParsed.hostname
  /\ NewURL(normalized.value).pathname = InputParsed.pathname
  /\ SearchParams(NewURL(normalized.value)) =
       WithFormatParams(SearchParams(InputParsed))

\* C8 as stated: every URL whose host contains images.unsplash.com comes back
\* with its parameters unchanged and the missing ones of auto, fit, fm added.
C8_CdnAddsMissing ==
  (npc = "returned" /\ InputIsCdn) => ResultHasFormatParams

\* C8 amended: the same, for a URL that is not an imgres wrapper carrying a
\* non-empty imgurl.
C8_CdnAddsMissingUnlessWrapper ==
  (npc = "returned" /\ InputIsCdn /\ ~InputIsWrapper) => ResultHasFormatParams

\* a CDN URL with its own auto value got fit and fm and kept auto=webp
C8_Witness ==
  /\ npc = "returned" /\ InputIsCdn /\ ~InputIsWrapper
  /\ SearchParams(InputParsed) = <<[name |-> "auto", value |-> Text("webp")]>>
  /\ SearchParams(NewURL(normalized.value)) =
       <<[name |-> "auto", value |-> Text("webp")],
         [name |-> "fit", value |-> Text("crop")],
         [name |-> "fm", value |-> Text("jpg")]>>

\* C9: a wrapper URL with a non-empty imgurl yields what normalizeImageUrl
\* yields for the imgurl value (each nested invocation is called with the
\* imgurl value of its caller), also when its host matches the CDN rule; a
\* google imgres URL without imgurl gets the CDN treatment when its host
\* matches the CDN rule and is returned unchanged otherwise.
C9_FirstMatchWins ==
  /\ \A i \in 1..(Len(callStack) - 1) :
       LET caller == NewURL(callStack[i]) IN
       /\ ~caller.threw
       /\ IsImgresWrapper(caller) /\ HasActualImageUrl(caller)
       /\ callStack[i + 1] = ParamsGet(SearchParams(caller), "imgurl")
  /\ (npc = "call" /\ InputIsWrapper) =>
       Len(callStack) >= 2 \/ NormalizeBody(rawUrl).kind = "recurse"
  /\ (npc = "returned" /\ InputIsWrapper) =>
       normalized =
         normalizeImageUrl(ParamsGet(SearchParams(InputParsed), "imgurl"))
  /\ (npc = "returned" /\ InputIsUrl /\ IsImgresWrapper(InputParsed)
        /\ ~HasActualImageUrl(InputParsed)) =>
       IF InputIsCdn THEN ResultHasFormatParams
       ELSE normalized = [threw |-> FALSE, value |-> rawUrl]

\* a wrapper whose host also matches the CDN rule returned the embedded URL
C9_Witness ==
  /\ npc = "returned" /\ InputIsWrapper /\ InputIsCdn
  /\ normalized.value = ParamsGet(SearchParams(InputParsed), "imgurl")
  /\ normalized.value.kind = "url"

\* C10: normalizeImageUrl never throws; a string that is not a URL, and a URL
\* that matches neither rule, is returned exactly as it was given.
C10_NeverThrows ==
  npc = "returned" =>
    /\ ~normalized.threw
    /\ ~InputIsUrl => normalized.value = rawUrl
    /\ (InputIsUrl /\ ~InputIsWrapper /\ ~InputIsCdn) => normalized.value = rawUrl

\* a string that does not parse came back as it was
C10_Witness ==
  /\ npc = "returned"
  /\ rawUrl = NotAUrl
  /\ normalized = [threw |-> FALSE, value |-> NotAUrl]

----------------------------------------------------------------------------
(* Properties of findSimilarProducts (specification SpecRank) *)

Ids(list) == { list[i].id : i \in 1..Len(list) }

\* the entry of the catalog that a result entry was computed from
EntryOf(id) ==
  catalogEmbeddings[CHOOSE i \in 1..Len(catalogEmbeddings) :
                      catalogEmbeddings[i].id = id]

\* C11: findSimilarProducts returns at most K entries, in order of
\* non-increasing score, with identifiers of the catalog and none of them
\* twice; a catalog of fewer than K entries is returned whole and an empty
\* catalog gives an empty result
C11_TopK ==
  rpc = "returned" =>
    /\ Len(ranked) <= topK
    /\ \A i, j \in 1..Len(ranked) :
         i < j => ~Less(ranked[i].similarity, ranked[j].similarity)
    /\ Ids(ranked) \subseteq Ids(catalogEmbeddings)
    /\ \A i, j \in 1..Len(ranked) : ranked[i].id = ranked[j].id => i = j
    /\ Len(catalogEmbeddings) < topK => Len(ranked) = Len(catalogEmbeddings)
    /\ catalogEmbeddings = <<>> => ranked = <<>>

\* a catalog of more than K entries, K at least two, whose best entry is
\* not its first one
C11_Witness ==
  /\ rpc = "returned"
  /\ topK >= 2
  /\ Len(catalogEmbeddings) > topK
  /\ Len(ranked) = topK
  /\ ranked[1].id # catalogEmbeddings[1].id
  /\ Less(ranked[2].similarity, ranked[1].similarity)

\* the score num / sqrt(den) * 100 lies in [0, 100]
InRange(x) == x.num >= 0 /\ x.den > 0 /\ x.num * x.num <= x.den

ZeroMagnitude(vector) ==
  ~IsFinite(vector) \/ DotProduct(vector, vector, Len(vector)) = 0

\* the cosine of the two embeddings over the shorter length is negative
NegativeCosine(a, b) ==
  /\ ~ZeroMagnitude(a)
  /\ ~ZeroMagnitude(b)
  /\ DotProduct(a, b, Min(Len(a), Len(b))) < 0

\* C12: every score of findSimilarProducts lies in [0, 100]; it is 0 when
\* the cosine is negative and when the embedding of the query or of the
\* catalog entry has zero or non-finite magnitude, whatever the two lengths
C12_ScoreRange ==
  rpc = "returned" =>
    \A i \in 1..Len(ranked) :
      LET embedding == EntryOf(ranked[i].id).embedding IN
        /\ InRange(ranked[i].similarity)
        /\ NegativeCosine(sourceImage.stats, embedding)
             => ranked[i].similarity.num = 0
        /\ (ZeroMagnitude(sourceImage.stats) \/ ZeroMagnitude(embedding))
             => ranked[i].similarity.num = 0

\* a result with an entry of negative cosine, an entry of another length
\* than the query and a positive score
C12_Witness ==
  /\ rpc = "returned"
  /\ \E i \in 1..Len(ranked) :
       NegativeCosine(sourceImage.stats, EntryOf(ranked[i].id).embedding)
  /\ \E i \in 1..Len(ranked) :
       /\ Len(EntryOf(ranked[i].id).embedding) # DIMENSIONS
       /\ ranked[i].similarity.num > 0
  /\ \E i \in 1..Len(ranked) :
       ZeroMagnitude(EntryOf(ranked[i].id).embedding)

----------------------------------------------------------------------------
(* Properties of the Home component (specification SpecHome) *)

\* an entry that follows the schema: six elements, all of them numbers
FollowsSchema(entry) ==
  Len(entry.embedding) = DIMENSIONS /\ IsFinite(entry.embedding)

\* C13: a catalog with an entry that violates the schema is rejected at
\* load, so that no entry of such a catalog becomes visible to the ranker:
\* every entry the ranker can see follows the schema, and so do its fellows
C13_NoViolatingCatalogVisible ==
  /\ \A i \in 1..Len(productEmbeddings) : FollowsSchema(productEmbeddings[i])
  /\ \A i \in 1..Len(products) : FollowsSchema(products[i])

\* C14: once the catalog is loaded no step changes products or
\* productEmbeddings, findSimilarProducts included: the two are written only
\* by the step that ends the initial load
C14_CatalogImmutable ==
  [][catalogFetch # "pending"
       => products' = products /\ productEmbeddings' = productEmbeddings]_vars

\* a search has ranked the picture of the second submission against a
\* loaded catalog, and the slider has been moved since the page was opened
C14_Witness ==
  /\ catalogFetch = "loaded"
  /\ lastSearch.done
  /\ lastSearch.image.sub = 2
  /\ similarProducts # <<>>
  /\ filterThreshold # DEFAULT_THRESHOLD

\* the identifiers of a list, in its order
IdsInOrder(list) == [i \in 1..Len(list) |-> list[i].id]

\* the ranking of the last completed search
LastRanking ==
  findSimilarProducts(PictureOf(lastSearch.image.sub), productEmbeddings,
                      TOP_K).result

\* C15: in every state after a completed search, also after the threshold
\* was changed without a new search, the displayed matches are exactly the
\* ranked entries of that search whose score is at least the threshold
C15_DisplayFollowsThreshold ==
  lastSearch.done =>
    IdsInOrder(similarProducts)
      = IdsInOrder(FilterResults(LastRanking, filterThreshold))

UrlSubmissions == { sub \in 1..MaxSubmissions : loads[sub].proxies > 0 }

\* C16: per URL submission the proxy is attempted exactly once; when the
\* proxy attempt fails (network error, non-success status or a payload that
\* does not load as an image) the normalized URL is loaded directly exactly
\* once; when that fails too one error is set; there is no third attempt
C16_TwoAttempts ==
  \A sub \in UrlSubmissions :
    /\ loads[sub].proxies = 1
    /\ loads[sub].directs <= 1
    /\ loads[sub].proxy \in {"network", "status", "undecodable"}
         => loads[sub].directs = 1
    /\ loads[sub].direct = "failed" => loads[sub].errors = 1

Quiescent == pendingFetches = {} /\ pendingReads = {} /\ pendingImages = {}

\* C17: every object URL created for a proxied image is revoked on every
\* exit path: when no fetch, read or image load is outstanding, an object
\* URL that was created and not revoked is the current image of the
\* mounted component
C17_ObjectUrlsRevoked ==
  Quiescent =>
    \A url \in objectUrls.created \ objectUrls.revoked :
      mounted /\ uploadedImage = url

----------------------------------------------------------------------------
(* Further properties of the image proxy (specification Spec) *)

Success(status) == status >= 200 /\ status <= 299

\* C19: the proxy never sends an error body with a success status: a
\* response with a 2xx status carries the body of the upstream reply, and an
\* upstream reply that is ok but has no body is answered with an error whose
\* status is not 2xx, as is every 'Failed to fetch remote image'
C19_NoErrorWithSuccessStatus ==
  pc = "responded" =>
    /\ Success(response.status) =>
         /\ response.error = ""
         /\ fetchState = "resolved"
         /\ response.body = upstreamResponse.body
         /\ response.body # "null"
    /\ (fetchState = "resolved" /\ UpstreamOk /\ upstreamResponse.body = "null")
         => response.error # "" /\ ~Success(response.status)
    /\ response.error = "Failed to fetch remote image"
         => ~Success(response.status)

\* an upstream reply that is ok and has no body has been answered
C19_Witness ==
  /\ pc = "responded"
  /\ fetchState = "resolved"
  /\ UpstreamOk
  /\ upstreamResponse.body = "null"
  /\ response.error # ""

----------------------------------------------------------------------------
(* Further properties of normalizeImageUrl (specification SpecNormalize) *)

\* the number of characters of the strings the inputs are built from
Chars(s) ==
  CASE s \in {""} -> 0
    [] s \in {"q"} -> 1
    [] s \in {"fm"} -> 2
    [] s \in {"fit", "max", "png", "a b", "jpg"} -> 3
    [] s \in {"auto", "webp", "crop", "ftp:"} -> 4
    [] s \in {"http:"} -> 5
    [] s \in {"imgurl", "format", "https:", "/photo"} -> 6
    [] s \in {"/imgres"} -> 7
    [] s \in {"not a url"} -> 9
    [] s \in {"example.com"} -> 11
    [] s \in {"www.google.com"} -> 14
    [] s \in {"images.unsplash.com"} -> 19
    [] s \in {"images.unsplash.com.google.com"} -> 30

\* the length of a string: a URL is its scheme, "//", host and path and, per
\* parameter, a "?" or "&", the name, "=" and the value as it is spelled; a
\* spelling takes one character or one %XX escape per character of the value
RECURSIVE StringLength(_)
StringLength(raw) ==
  IF raw.kind = "text" THEN Chars(raw.s)
  ELSE LET PieceLength(piece) ==
             1 + Chars(piece.name) + 1 + StringLength(piece.value)
               + (IF piece.spelling = "pct" THEN 2 ELSE 0)
           RECURSIVE QueryLength(_)
           QueryLength(query) ==
             IF query = <<>> THEN 0
             ELSE PieceLength(Head(query)) + QueryLength(Tail(query))
       IN Chars(raw.protocol) + 2 + Chars(raw.hostname) + Chars(raw.pathname)
            + QueryLength(raw.query)

\* how deep URLs are nested in the parameters of a string
RECURSIVE NestingDepth(_)
NestingDepth(raw) ==
  IF raw.kind = "text" THEN 0
  ELSE LET RECURSIVE Deepest(_)
           Deepest(query) ==
             IF query = <<>> THEN 0
             ELSE LET first == NestingDepth(Head(query).value)
                      rest == Deepest(Tail(query))
                  IN IF first >= rest THEN first ELSE rest
       IN 1 + Deepest(raw.query)

\* C20: normalizeImageUrl terminates for every input: each recursive call
\* is made on a string strictly shorter than the URL it was taken from, and
\* the number of invocations on the stack never exceeds the depth of
\* nesting in the input by more than the outermost call; the call is over
\* exactly when no invocation is left on the stack
C20_RecursionBounded ==
  /\ \A i \in 1..(Len(callStack) - 1) :
       StringLength(callStack[i + 1]) < StringLength(callStack[i])
  /\ Len(callStack) <= NestingDepth(rawUrl) + 1
  /\ npc = "call" <=> callStack # <<>>

\* two recursive calls are active
C20_Witness == Len(callStack) = 3

====
